---- MODULE Spec2Model ----
(***************************************************************************)
(* A model of the Orbit object-relational layer: the fluent query Builder  *)
(* (src/src/orbit/builder.rs), the Orbit entity trait with its CRUD        *)
(* operations (src/src/orbit/mod.rs), the DatabaseManager                  *)
(* (src/src/database.rs) and the Migrator                                  *)
(* (src/src/database/migrator.rs).                                         *)
(*                                                                         *)
(* SQL text is kept as a sequence of string tokens: the text the code      *)
(* builds is the tokens joined by single spaces, so format!("{} {} ?", c,  *)
(* op) is <<c, op, "?">> and v.join(" AND ") puts an "AND" token between   *)
(* the elements of v.  A deferred binder (a closure that adds one captured *)
(* value to the argument list) is kept as the value it captured.           *)
(***************************************************************************)
EXTENDS Integers, Sequences, FiniteSets, TLC

VARIABLES
    builder,      \* the Builder under construction (the `self` that the chained calls move)
    ncalls,       \* how many chained calls the Builder has received
    origin,       \* how the Builder was made: "new", "query", "with_trashed"; "none" once consumed
    pools,        \* DatabaseManager.pools: the registered connection names
    connection,   \* the entity's Orbit::connection(): None or Some(name)
    SOFT_DELETES, \* the entity's const SOFT_DELETES
    TIMESTAMPS,   \* the entity's const TIMESTAMPS
    rows,         \* the entity's table: a set of rows, one per primary key
    nextId,       \* the table's AUTO_INCREMENT counter
    now,          \* the last reading of chrono::Local::now()
    nops,         \* how many create/update/delete/force_delete/restore calls were made
    result,       \* the last Orbit or terminal call: its arguments and what it returned
    mig,          \* per Migrator invocation slot: where run()/rollback() stands, and its locals
    tracking,     \* the rows of the `migrations` table, in id order: [migration, batch]
    schema,       \* the migrations whose UP has created its table and whose DOWN has not dropped it
    files,        \* the names of the .sql files in the migration directory
    migrations_table, \* does the `migrations` table exist
    touched,      \* has the directory changed since the last invocation started
    nruns,        \* how many run()/rollback() invocations were started
    blueprint     \* the Blueprint that Schema::create hands to its callback

bvars == <<builder, ncalls, origin>>

ovars == <<pools, connection, SOFT_DELETES, TIMESTAMPS, rows, nextId, now, nops, result>>

mvars == <<mig, tracking, schema, files, migrations_table, touched, nruns>>
svars == <<blueprint>>
vars == <<bvars, ovars, mvars, svars>>

-----------------------------------------------------------------------------
(* Bounds and input domains                                                *)

MaxCalls == 3           \* chained calls per Builder
MaxOps   == 3           \* create/update/delete/force_delete/restore calls
MaxRuns  == 3           \* run()/rollback() invocations
MaxCols  == 3           \* Blueprint calls in one Schema::create callback

TableName == "users"
DefaultName == "mysql"
\* The Builder copies column names and operators into the text unread; two
\* values tell the order of the binders apart.
Cols == {"id"}
Ops  == {"=", ">"}
Vals == {1, 2}
\* value lists for where_in / where_not_in, the empty one included
InLists == {<<>>, <<2, 1>>}
\* (min, max) pairs for where_between
Ranges == {<<1, 2>>, <<2, 1>>}
SelectLists == {<<"id">>, <<"id", "age">>}
\* select() also takes no column at all, and a column whose name begins with
\* the letters of the keyword
OddSelectLists == {<<>>, <<"DISTINCT_FLAG">>}
\* where_raw takes any text: one clause without a placeholder, and the one of
\* the method's own doc comment, "id = ?"
RawClauses == {<<"age", ">", "18">>, <<"id", "=", "?">>}
Directions == {"ASC", "DESC"}
Limits == {1, 5}
SubTable == "posts"

-----------------------------------------------------------------------------
(* Sequence helpers                                                        *)

RECURSIVE Flatten(_)
Flatten(ss) == IF ss = <<>> THEN <<>> ELSE Head(ss) \o Flatten(Tail(ss))

\* v.join(sep) on a list of token sequences
RECURSIVE JoinWith(_, _)
JoinWith(ss, sep) ==
    IF ss = <<>> THEN <<>>
    ELSE IF Len(ss) = 1 THEN Head(ss)
    ELSE Head(ss) \o sep \o JoinWith(Tail(ss), sep)

\* vec![x; n]

IsPlaceholder(tok) == tok = "?"

CountPlaceholders(toks) == Len(SelectSeq(toks, IsPlaceholder))

Digits == <<"0", "1", "2", "3", "4", "5", "6", "7", "8", "9">>

\* format!("{}", n) for an i64
RECURSIVE NumStr(_)
NumStr(n) ==
    IF n < 0 THEN "-" \o NumStr(0 - n)
    ELSE IF n < 10 THEN Digits[n + 1]
    ELSE NumStr(n \div 10) \o Digits[(n % 10) + 1]

\* Option<T>: None is the empty sequence, Some(x) is <<x>>
None == <<>>
Some(x) == <<x>>

-----------------------------------------------------------------------------
(* Builder (src/src/orbit/builder.rs)                                      *)
(*                                                                         *)
(* The record has the struct's fields.  `marks` is the only addition: a    *)
(* history field, parallel to `wheres`, that records for each predicate    *)
(* the values its `?` placeholders were written for, left to right.  No    *)
(* operation reads it; the properties compare it with argument_appliers.   *)

New(table) ==
    [ table             |-> table,
      select            |-> << <<"*">> >>,
      joins             |-> <<>>,
      wheres            |-> <<>>,
      order             |-> <<>>,
      limit             |-> None,
      offset            |-> None,
      argument_appliers |-> <<>>,
      marks             |-> <<>> ]

Select(b, columns) == [b EXCEPT !.select = [i \in 1..Len(columns) |-> <<columns[i]>>]]

WhereRaw(b, clause) ==
    [b EXCEPT !.wheres = Append(@, clause),
              !.marks  = Append(@, <<>>)]

Where(b, col, op, val) ==
    [b EXCEPT !.wheres            = Append(@, <<col, op, "?">>),
              !.argument_appliers = Append(@, val),
              !.marks             = Append(@, <<val>>)]

WhereEq(b, col, val) == Where(b, col, "=", val)

OrderBy(b, column, direction) == [b EXCEPT !.order = Append(@, <<column, direction>>)]

\* A slip: a limit already set is kept.
LimitKeepsFirst(b, limit) == IF b.limit = None THEN [b EXCEPT !.limit = Some(limit)] ELSE b

Limit(b, limit) == [b EXCEPT !.limit = Some(limit)]

Offset(b, offset) == [b EXCEPT !.offset = Some(offset)]

Join(b, table, first, op, second) ==
    [b EXCEPT !.joins = Append(@, <<"INNER", "JOIN", table, "ON", first, op, second>>)]

LeftJoin(b, table, first, op, second) ==
    [b EXCEPT !.joins = Append(@, <<"LEFT", "JOIN", table, "ON", first, op, second>>)]

\* A slip: the predicates are written before the joins.
ToSqlWheresFirst(b) ==
    <<"SELECT">> \o JoinWith(b.select, <<",">>) \o <<"FROM", b.table>>
    \o (IF b.wheres # <<>> THEN <<"WHERE">> \o JoinWith(b.wheres, <<"AND">>) ELSE <<>>)
    \o (IF b.joins # <<>> THEN JoinWith(b.joins, <<>>) ELSE <<>>)
    \o (IF b.order # <<>> THEN <<"ORDER", "BY">> \o JoinWith(b.order, <<",">>) ELSE <<>>)
    \o (IF b.limit # None THEN <<"LIMIT", NumStr(b.limit[1])>> ELSE <<>>)
    \o (IF b.offset # None THEN <<"OFFSET", NumStr(b.offset[1])>> ELSE <<>>)

ToSql(b) ==
    <<"SELECT">> \o JoinWith(b.select, <<",">>) \o <<"FROM", b.table>>
    \o (IF b.joins # <<>> THEN JoinWith(b.joins, <<>>) ELSE <<>>)
    \o (IF b.wheres # <<>> THEN <<"WHERE">> \o JoinWith(b.wheres, <<"AND">>) ELSE <<>>)
    \o (IF b.order # <<>> THEN <<"ORDER", "BY">> \o JoinWith(b.order, <<",">>) ELSE <<>>)
    \o (IF b.limit # None THEN <<"LIMIT", NumStr(b.limit[1])>> ELSE <<>>)
    \o (IF b.offset # None THEN <<"OFFSET", NumStr(b.offset[1])>> ELSE <<>>)

\* Runs the appliers in order over an empty argument list.
BuildArguments(b) == b.argument_appliers

\* A slip: the subquery's binders are queued ahead of the outer ones.
WhereExistsBindersFirst(b, subquery) ==
    [b EXCEPT !.wheres            = Append(@, <<"EXISTS", "(">> \o ToSql(subquery) \o <<")">>),
              !.argument_appliers = subquery.argument_appliers \o @,
              !.marks             = Append(@, Flatten(subquery.marks))]

WhereExists(b, subquery) ==
    [b EXCEPT !.wheres            = Append(@, <<"EXISTS", "(">> \o ToSql(subquery) \o <<")">>),
              !.argument_appliers = @ \o subquery.argument_appliers,
              !.marks             = Append(@, Flatten(subquery.marks))]

\* first.starts_with("DISTINCT"): the words of the texts at hand that begin
\* with these letters, the keyword itself included.
DistinctWords == {"DISTINCT", "DISTINCT_FLAG"}

StartsWithDistinct(expr) == expr # <<>> /\ Head(expr) \in DistinctWords

\* A slip: the prefix is written without looking at the expression.
DistinctAlways(b) ==
    IF b.select # <<>>
    THEN [b EXCEPT !.select[1] = <<"DISTINCT">> \o @]
    ELSE b

Distinct(b) ==
    IF b.select # <<>> /\ ~StartsWithDistinct(Head(b.select))
    THEN [b EXCEPT !.select[1] = <<"DISTINCT">> \o @]
    ELSE b

\* A slip: the predicate is pushed as a new element, which to_sql joins with AND.
OrWhereAppends(b, col, op, val) ==
    [b EXCEPT !.wheres            = Append(@, <<"OR", col, op, "?">>),
              !.argument_appliers = Append(@, val),
              !.marks             = Append(@, <<val>>)]

OrWhere(b, col, op, val) ==
    IF b.wheres # <<>>
    THEN LET n == Len(b.wheres)
         IN  [b EXCEPT !.wheres[n]         = @ \o <<"OR", col, op, "?">>,
                       !.argument_appliers = Append(@, val),
                       !.marks[n]          = Append(@, val)]
    ELSE [b EXCEPT !.wheres            = Append(@, <<col, op, "?">>),
                   !.argument_appliers = Append(@, val),
                   !.marks             = Append(@, <<val>>)]

WhereIn(b, col, values) ==
    [b EXCEPT !.wheres = Append(@, <<col, "IN", "(">>
                                   \o JoinWith([i \in 1..Len(values) |-> <<"?">>], <<",">>)
                                   \o <<")">>),
              !.argument_appliers = @ \o values,
              !.marks             = Append(@, values)]

WhereNotIn(b, col, values) ==
    [b EXCEPT !.wheres = Append(@, <<col, "NOT", "IN", "(">>
                                   \o JoinWith([i \in 1..Len(values) |-> <<"?">>], <<",">>)
                                   \o <<")">>),
              !.argument_appliers = @ \o values,
              !.marks             = Append(@, values)]

WhereNull(b, col) ==
    [b EXCEPT !.wheres = Append(@, <<col, "IS", "NULL">>),
              !.marks  = Append(@, <<>>)]

WhereNotNull(b, col) ==
    [b EXCEPT !.wheres = Append(@, <<col, "IS", "NOT", "NULL">>),
              !.marks  = Append(@, <<>>)]

\* A slip: the upper bound is queued before the lower one.
WhereBetweenMaxFirst(b, col, min, max) ==
    [b EXCEPT !.wheres            = Append(@, <<col, "BETWEEN", "?", "AND", "?">>),
              !.argument_appliers = @ \o <<max, min>>,
              !.marks             = Append(@, <<min, max>>)]

WhereBetween(b, col, min, max) ==
    [b EXCEPT !.wheres            = Append(@, <<col, "BETWEEN", "?", "AND", "?">>),
              !.argument_appliers = @ \o <<min, max>>,
              !.marks             = Append(@, <<min, max>>)]

Latest(b, column) == [b EXCEPT !.order = Append(@, <<column, "DESC">>)]

Oldest(b, column) == [b EXCEPT !.order = Append(@, <<column, "ASC">>)]

RECURSIVE GroupBy(_, _)
GroupBy(b, columns) ==
    IF columns = <<>> THEN b
    ELSE GroupBy([b EXCEPT !.wheres = Append(@, <<"GROUP", "BY", Head(columns)>>),
                           !.marks  = Append(@, <<>>)],
                 Tail(columns))

Having(b, col, op, val) ==
    [b EXCEPT !.wheres            = Append(@, <<"HAVING", col, op, "?">>),
              !.argument_appliers = Append(@, val),
              !.marks             = Append(@, <<val>>)]

-----------------------------------------------------------------------------
(* Chained Builder calls as actions.  Each call consumes `self` and        *)
(* returns the changed Builder.                                            *)

\* The subqueries handed to where_exists: Builders over another table, built
\* by the same calls.
SubQueries ==
    LET s == New(SubTable)
    IN  {s}
        \cup {WhereBetween(WhereEq(s, "user_id", 1), "id", 2, 1)}

CanCall == origin # "none" /\ ncalls < MaxCalls

Called(b) ==
    /\ builder' = b
    /\ ncalls' = ncalls + 1
    /\ UNCHANGED <<origin, ovars, mvars, svars>>

DoSelect ==
    CanCall /\ \E columns \in SelectLists \cup OddSelectLists : Called(Select(builder, columns))

DoWhereRaw == CanCall /\ \E clause \in RawClauses : Called(WhereRaw(builder, clause))

DoWhere ==
    CanCall /\ \E col \in Cols, op \in Ops, val \in Vals : Called(Where(builder, col, op, val))

DoWhereEq == CanCall /\ \E col \in Cols, val \in Vals : Called(WhereEq(builder, col, val))

DoOrderBy ==
    CanCall /\ \E column \in Cols, direction \in Directions :
                   Called(OrderBy(builder, column, direction))

DoLimit == CanCall /\ \E limit \in Limits : Called(Limit(builder, limit))

DoOffset == CanCall /\ \E offset \in Limits : Called(Offset(builder, offset))

DoJoin ==
    CanCall /\ Called(Join(builder, SubTable, "users.id", "=", "posts.user_id"))

DoLeftJoin ==
    CanCall /\ Called(LeftJoin(builder, SubTable, "users.id", "=", "posts.user_id"))

DoWhereExists == CanCall /\ \E subquery \in SubQueries : Called(WhereExists(builder, subquery))

DoDistinct == CanCall /\ Called(Distinct(builder))

DoOrWhere ==
    CanCall /\ \E col \in Cols, op \in Ops, val \in Vals : Called(OrWhere(builder, col, op, val))

DoWhereIn ==
    CanCall /\ \E col \in Cols, values \in InLists :
                   Called(WhereIn(builder, col, values))

DoWhereNotIn ==
    CanCall /\ \E col \in Cols, values \in InLists :
                   Called(WhereNotIn(builder, col, values))

DoWhereNull == CanCall /\ \E col \in Cols : Called(WhereNull(builder, col))

DoWhereNotNull == CanCall /\ \E col \in Cols : Called(WhereNotNull(builder, col))

DoWhereBetween ==
    CanCall /\ \E col \in Cols, r \in Ranges :
                   Called(WhereBetween(builder, col, r[1], r[2]))

DoLatest == CanCall /\ \E column \in Cols : Called(Latest(builder, column))

DoOldest == CanCall /\ \E column \in Cols : Called(Oldest(builder, column))

DoGroupBy == CanCall /\ \E columns \in SelectLists : Called(GroupBy(builder, columns))

DoHaving ==
    CanCall /\ \E col \in Cols, op \in Ops, val \in Vals : Called(Having(builder, col, op, val))

-----------------------------------------------------------------------------
(* Schema and Blueprint (src/src/orbit/schema.rs)                          *)
(*                                                                         *)
(* The record has the struct's fields.  `calls`, `handle` and `open` are   *)
(* additions: the calls the callback has made, whether the last one        *)
(* returned the &mut ColumnDefinition that nullable(), unique() and        *)
(* default() are called on, and whether the callback is still running.     *)

BlueprintNew(table) ==
    [ table |-> table, columns |-> <<>>, primary_key |-> None,
      calls |-> <<>>, handle |-> FALSE, open |-> TRUE ]

\* The column methods and the data type each hands to add_column.
DataType(method) ==
    CASE method = "string"    -> "VARCHAR(255)"
      [] method = "text"      -> "TEXT"
      [] method = "integer"   -> "INT"
      [] method = "boolean"   -> "BOOLEAN"
      [] method = "timestamp" -> "DATETIME"

AddColumn(bp, name, data_type) ==
    [bp EXCEPT !.columns = Append(@, [ name |-> name, data_type |-> data_type,
                                       auto_increment |-> FALSE, nullable |-> FALSE,
                                       unique |-> FALSE, default |-> None ])]

BlueprintId(bp) ==
    [bp EXCEPT !.columns = Append(@, [ name |-> "id", data_type |-> "BIGINT",
                                       auto_increment |-> TRUE, nullable |-> FALSE,
                                       unique |-> FALSE, default |-> None ]),
               !.primary_key = Some("id")]

\* ColumnDefinition::nullable / unique / default on the column just added.
Nullable(bp) == [bp EXCEPT !.columns[Len(bp.columns)].nullable = TRUE]

Unique(bp) == [bp EXCEPT !.columns[Len(bp.columns)].unique = TRUE]

Default(bp, value) == [bp EXCEPT !.columns[Len(bp.columns)].default = Some(value)]

Timestamps(bp) ==
    Default(AddColumn(Default(AddColumn(bp, "created_at", DataType("timestamp")),
                              "CURRENT_TIMESTAMP"),
                      "updated_at", DataType("timestamp")),
            "CURRENT_TIMESTAMP ON UPDATE CURRENT_TIMESTAMP")

\* ColumnDefinition::to_sql: the parts, to be joined by " ".
ColumnToSql(col) ==
    <<col.name, col.data_type>>
    \o (IF ~col.nullable THEN <<"NOT NULL">> ELSE <<>>)
    \o (IF col.auto_increment THEN <<"AUTO_INCREMENT">> ELSE <<>>)
    \o (IF col.default # None THEN <<"DEFAULT", col.default[1]>> ELSE <<>>)
    \o (IF col.unique THEN <<"UNIQUE">> ELSE <<>>)

\* A slip: the key is written before the columns.
BlueprintLinesKeyFirst(bp) ==
    (IF bp.primary_key # None THEN << <<"PRIMARY KEY", "(", bp.primary_key[1], ")">> >> ELSE <<>>)
    \o [i \in 1..Len(bp.columns) |-> ColumnToSql(bp.columns[i])]

\* The `lines` of Blueprint::to_sql.
BlueprintLines(bp) ==
    [i \in 1..Len(bp.columns) |-> ColumnToSql(bp.columns[i])]
    \o (IF bp.primary_key # None THEN << <<"PRIMARY KEY", "(", bp.primary_key[1], ")">> >> ELSE <<>>)

TableOptions == "ENGINE=InnoDB DEFAULT CHARSET=utf8mb4 COLLATE=utf8mb4_unicode_ci;"

BlueprintToSql(bp) ==
    <<"CREATE", "TABLE", bp.table, "(">> \o JoinWith(BlueprintLines(bp), <<",">>)
    \o <<")", TableOptions>>

NoSchema == blueprint = BlueprintNew(TableName)

\* The columns a callback adds, as (method, name), and the defaults it gives.
TypedColumns == {<<"string", "email">>, <<"integer", "age">>, <<"boolean", "active">>,
                 <<"text", "bio">>, <<"timestamp", "seen_at">>}
Defaults == {"0"}

CanDefine == blueprint.open /\ Len(blueprint.calls) < MaxCols

Defined(bp, call, handle) ==
    /\ blueprint' = [bp EXCEPT !.calls = Append(@, call), !.handle = handle]
    /\ UNCHANGED <<bvars, ovars, mvars>>

DoId == CanDefine /\ Defined(BlueprintId(blueprint), <<"id">>, FALSE)

DoColumn ==
    CanDefine /\ \E tc \in TypedColumns :
                     Defined(AddColumn(blueprint, tc[2], DataType(tc[1])), tc, TRUE)

DoTimestamps == CanDefine /\ Defined(Timestamps(blueprint), <<"timestamps">>, FALSE)

DoNullable == CanDefine /\ blueprint.handle /\ Defined(Nullable(blueprint), <<"nullable">>, TRUE)

DoUnique == CanDefine /\ blueprint.handle /\ Defined(Unique(blueprint), <<"unique">>, TRUE)

DoDefault ==
    CanDefine /\ blueprint.handle
        /\ \E value \in Defaults : Defined(Default(blueprint, value), <<"default", value>>, TRUE)

\* The slots in which a Migrator invocation can be under way.
Procs == {1, 2}

NoInvocation == [kind |-> "none", result |-> "none", pre |-> <<>>, inserts |-> 0]

\* A slot with no invocation under way.  pc, kind, result: the position in
\* run()/rollback(), which of them, and what it returned; migrations,
\* ran_migrations, batch, todo: the locals of the invocation; pre, prev,
\* clean, ups, inserts, skipped: the tracking table when it started, the
\* invocation before it, whether the directory was left alone in between,
\* and how many UPs it sent, rows it inserted and rows it skipped; log: the
\* UP and DOWN sections it sent and the rows it inserted and deleted, in
\* order; failed: the section whose execution returned an error.
IdleProc ==
    [ pc |-> "done", kind |-> "none", result |-> "none",
      migrations |-> <<>>, ran_migrations |-> {}, batch |-> 0, todo |-> <<>>,
      pre |-> <<>>, prev |-> NoInvocation, clean |-> FALSE,
      ups |-> 0, inserts |-> 0, skipped |-> 0, log |-> <<>>, failed |-> "none" ]

\* No Migrator at work, on an empty database and directory.
NoMigrator ==
    /\ mig = [p \in Procs |-> IdleProc]
    /\ tracking = <<>>
    /\ schema = {}
    /\ files = {}
    /\ migrations_table = FALSE
    /\ touched = FALSE
    /\ nruns = 0

EmptyObject == [c \in {} |-> 0]

NoPayload == [kind |-> "none", fields |-> EmptyObject]

NoResult ==
    [ op |-> "none", origin |-> "none", chained |-> 0, id |-> 0, data |-> NoPayload,
      status |-> "none", value |-> 0, rows |-> <<>>, stmts |-> 0, sql |-> <<>> ]

\* A Builder::new(table) before its first chained call, over an empty table.
Init ==
    /\ builder = New(TableName)
    /\ ncalls = 0
    /\ origin = "new"
    /\ pools = {DefaultName}
    /\ connection = None
    /\ SOFT_DELETES = FALSE
    /\ TIMESTAMPS = TRUE
    /\ rows = {}
    /\ nextId = 1
    /\ now = 1
    /\ nops = 0
    /\ result = NoResult
    /\ NoMigrator
    /\ NoSchema

\* The predicate calls with bound values, on a fresh Builder.
NextWhere ==
    \/ DoWhere
    \/ DoWhereEq
    \/ DoWhereIn
    \/ DoWhereNotIn
    \/ DoWhereBetween

SpecWhere == Init /\ [][NextWhere]_vars

\* Every chaining call.
NextBuilder ==
    \/ DoSelect
    \/ DoWhereRaw
    \/ DoWhere
    \/ DoWhereEq
    \/ DoOrderBy
    \/ DoLimit
    \/ DoOffset
    \/ DoJoin
    \/ DoLeftJoin
    \/ DoWhereExists
    \/ DoDistinct
    \/ DoOrWhere
    \/ DoWhereIn
    \/ DoWhereNotIn
    \/ DoWhereNull
    \/ DoWhereNotNull
    \/ DoWhereBetween
    \/ DoLatest
    \/ DoOldest
    \/ DoGroupBy
    \/ DoHaving

SpecBuilder == Init /\ [][NextBuilder]_vars

\* The callback returns and Schema::create renders the Blueprint.
SchemaCreate ==
    /\ blueprint.open
    /\ blueprint' = [blueprint EXCEPT !.open = FALSE, !.handle = FALSE]
    /\ result' = [NoResult EXCEPT !.op = "schema_create", !.status = "Ok",
                                  !.sql = BlueprintToSql(blueprint)]
    /\ UNCHANGED <<bvars, pools, connection, SOFT_DELETES, TIMESTAMPS, rows, nextId, now,
                   nops, mvars>>

NextSchema ==
    \/ DoId
    \/ DoColumn
    \/ DoTimestamps
    \/ DoNullable
    \/ DoUnique
    \/ DoDefault
    \/ SchemaCreate

SpecSchema == Init /\ [][NextSchema]_vars

\* A slip: rendering the text takes the limit out of the Builder.
AfterToSqlDrained(b) == [b EXCEPT !.limit = None]

\* to_sql(&self) borrows the Builder: it is the same afterwards.
AfterToSql(b) == b

\* to_sql() on the Builder at hand: the text is what the call returns.
DoToSql ==
    /\ origin # "none"
    /\ result' = [NoResult EXCEPT !.op = "to_sql", !.origin = origin, !.chained = ncalls,
                                  !.status = "Ok", !.sql = ToSql(builder)]
    /\ builder' = AfterToSql(builder)
    /\ UNCHANGED <<ncalls, origin, pools, connection, SOFT_DELETES, TIMESTAMPS, rows,
                   nextId, now, nops, mvars, svars>>

\* The calls that fill each field of the Builder, and to_sql() between them.
NextText ==
    \/ DoSelect
    \/ DoDistinct
    \/ DoJoin
    \/ DoWhere
    \/ DoOrderBy
    \/ DoLimit
    \/ DoOffset
    \/ DoToSql

SpecText == Init /\ [][NextText]_vars

-----------------------------------------------------------------------------
(* Placeholders against binders                                            *)

\* Each predicate holds as many placeholders as values were recorded for it,
\* so the k-th placeholder of the text was written for Flatten(marks)[k].
MarksAligned(b) ==
    /\ Len(b.marks) = Len(b.wheres)
    /\ \A i \in 1..Len(b.wheres) : CountPlaceholders(b.wheres[i]) = Len(b.marks[i])

\* The values the placeholders of to_sql() stand for, left to right.
PlaceholderValues(b) == Flatten(b.marks)

PlaceholdersMatchBinders(b) ==
    /\ MarksAligned(b)
    /\ CountPlaceholders(ToSql(b)) = Len(BuildArguments(b))
    /\ PlaceholderValues(b) = BuildArguments(b)

\* C1: after any sequence of where / where_eq / where_in / where_not_in /
\* where_between calls on a fresh Builder (an empty where_in list included,
\* which renders `col IN ( )` and queues nothing), to_sql() holds exactly as
\* many placeholders as binders are queued, and the i-th placeholder stands
\* for the value of the i-th binder.
C1_PlaceholdersMatch ==
    /\ PlaceholdersMatchBinders(builder)
    /\ \A i \in 1..Len(builder.wheres) :
           builder.wheres[i] \in {<<c, "IN", "(", ")">> : c \in Cols}
               => builder.marks[i] = <<>>

\* Witness of C1: an empty where_in, a where_between with lo # hi and a
\* two-element where_in have all been chained.
C1_Witness ==
    /\ ncalls = 3
    /\ \E i, j, k \in 1..Len(builder.wheres) :
          /\ builder.wheres[i] = <<"id", "IN", "(", ")">>
          /\ builder.wheres[j] = <<"id", "BETWEEN", "?", "AND", "?">>
          /\ builder.marks[j] = <<2, 1>>
          /\ builder.wheres[k] = <<"id", "IN", "(", "?", ",", "?", ")">>
    /\ Len(BuildArguments(builder)) = 4

\* C2: in every Builder reachable by chaining calls, the placeholders of
\* to_sql() match the deferred binders in count and order.
C2_PlaceholdersMatchAll == PlaceholdersMatchBinders(builder)

-----------------------------------------------------------------------------
(* The database behind a pool: one table of the entity, and what the       *)
(* statements sent by the Builder's terminal calls and by the Orbit        *)
(* operations do to it.  A statement is executed from its text and its     *)
(* bound arguments alone, as the server does: the k-th `?` takes the k-th  *)
(* argument, AND binds tighter than OR.  A comparison with a NULL column   *)
(* is not true, so the row is not selected.                                *)

Null == -1

Columns == {"id", "age", "created_at", "updated_at", "deleted_at"}

Literals == 0..20

\* The number a numeric literal of the text denotes.
StrNum(s) == CHOOSE n \in Literals : NumStr(n) = s

\* The first position of tok in toks, 0 when absent.
IndexOf(toks, tok) ==
    IF \E i \in 1..Len(toks) : toks[i] = tok
    THEN CHOOSE i \in 1..Len(toks) : toks[i] = tok /\ \A j \in 1..(i - 1) : toks[j] # tok
    ELSE 0

\* The first position at or after `from` of tok in toks.
IndexFrom(toks, tok, from) ==
    CHOOSE i \in from..Len(toks) : toks[i] = tok /\ \A j \in from..(i - 1) : toks[j] # tok

Compare(v, op, rhs) ==
    CASE op = "="  -> v = rhs
      [] op = ">"  -> v > rhs
      [] op = "<"  -> v < rhs
      [] OTHER     -> FALSE

\* The predicate that starts at token i of w, with k the next unused argument:
\* its truth on `row`, its length in tokens and the arguments it uses.
Atom(w, args, row, i, k) ==
    LET v == row[w[i]]
        kw == w[i + 1]
    IN  CASE kw = "IS" /\ w[i + 2] = "NOT" ->
               [val |-> v # Null, len |-> 4, used |-> 0]
          [] kw = "IS" /\ w[i + 2] # "NOT" ->
               [val |-> v = Null, len |-> 3, used |-> 0]
          [] kw = "BETWEEN" ->
               [val |-> v # Null /\ args[k] <= v /\ v <= args[k + 1], len |-> 5, used |-> 2]
          [] kw = "IN" ->
               LET close == IndexFrom(w, ")", i + 2)
                   n == (close - (i + 2)) \div 2
               IN  [val |-> v # Null /\ \E m \in k..(k + n - 1) : args[m] = v,
                    len |-> close - i + 1, used |-> n]
          [] kw = "NOT" ->
               LET close == IndexFrom(w, ")", i + 3)
                   n == (close - (i + 3)) \div 2
               IN  [val |-> v # Null /\ \A m \in k..(k + n - 1) : args[m] # v,
                    len |-> close - i + 1, used |-> n]
          [] OTHER ->
               IF w[i + 2] = "?"
               THEN [val |-> v # Null /\ Compare(v, kw, args[k]), len |-> 3, used |-> 1]
               ELSE [val |-> v # Null /\ Compare(v, kw, StrNum(w[i + 2])), len |-> 3, used |-> 0]

\* The WHERE text w on `row`, read left to right from token i: `conj` is the
\* conjunction being read, `disj` the disjunction of the conjunctions read.
RECURSIVE EvalPredicates(_, _, _, _, _, _, _)
EvalPredicates(w, args, row, i, k, conj, disj) ==
    LET a == Atom(w, args, row, i, k)
        j == i + a.len
        c == conj /\ a.val
    IN  IF j > Len(w) THEN disj \/ c
        ELSE IF w[j] = "OR"
        THEN EvalPredicates(w, args, row, j + 1, k + a.used, TRUE, disj \/ c)
        ELSE EvalPredicates(w, args, row, j + 1, k + a.used, c, disj)

\* The rows of a set in primary-key order.
RECURSIVE SortById(_)
SortById(S) ==
    IF S = {} THEN <<>>
    ELSE LET r == CHOOSE x \in S : \A y \in S : x.id <= y.id
         IN  <<r>> \o SortById(S \ {r})

\* An empty IN list is a syntax error; so is a count of `?` other than the
\* number of bound arguments.
StatementOk(sql, args) ==
    /\ CountPlaceholders(sql) = Len(args)
    /\ \A i \in 1..(Len(sql) - 1) : ~(sql[i] = "(" /\ sql[i + 1] = ")")

\* SELECT * FROM table [WHERE ...] [LIMIT n] [OFFSET n] on `table`.
ExecSelect(sql, args, table) ==
    LET wi == IndexOf(sql, "WHERE")
        li == IndexOf(sql, "LIMIT")
        oi == IndexOf(sql, "OFFSET")
        stop == IF li > 0 THEN li - 1 ELSE IF oi > 0 THEN oi - 1 ELSE Len(sql)
        w == IF wi > 0 THEN SubSeq(sql, wi + 1, stop) ELSE <<>>
        hit == {r \in table : wi = 0 \/ EvalPredicates(w, args, r, 1, 1, TRUE, FALSE)}
        sorted == SortById(hit)
        skip == IF oi > 0 THEN StrNum(sql[oi + 1]) ELSE 0
        rest == SubSeq(sorted, skip + 1, Len(sorted))
        take == IF li > 0 THEN StrNum(sql[li + 1]) ELSE Len(rest)
    IN  IF take < Len(rest) THEN SubSeq(rest, 1, take) ELSE rest

-----------------------------------------------------------------------------
(* DatabaseManager (src/src/database.rs) and the Orbit trait               *)
(* (src/src/orbit/mod.rs)                                                  *)

\* A slip: an unregistered name falls back to the default pool.
ConnectionOrDefault(name) ==
    LET n == IF name = None THEN DefaultName ELSE name[1]
    IN  IF n \in pools THEN Some(n)
        ELSE IF DefaultName \in pools THEN Some(DefaultName) ELSE None

Connection(name) ==
    LET n == IF name = None THEN DefaultName ELSE name[1]
    IN  IF n \in pools THEN Some(n) ELSE None

Query ==
    IF SOFT_DELETES THEN WhereNull(New(TableName), "deleted_at") ELSE New(TableName)

WithTrashed == New(TableName)

\* What a call returned: Ok(value / rows), one of sqlx::Error's variants, or a
\* panic; with the call's arguments and the number of statements it executed.
Res(op, org, id, data, status, value, rws, stmts) ==
    [ op |-> op, origin |-> org, chained |-> 0, id |-> id, data |-> data,
      status |-> status, value |-> value, rows |-> rws, stmts |-> stmts, sql |-> <<>> ]

\* The payloads handed to create / update.  serde_json::to_value turns a
\* payload into a JSON object (a column -> value map), into another JSON
\* value (here a number), or fails.
Payloads ==
    { [kind |-> "object", fields |-> EmptyObject],
      [kind |-> "object", fields |-> [c \in {"age"} |-> 30]],
      [kind |-> "object", fields |-> [c \in {"age", "created_at"} |-> IF c = "age" THEN 17 ELSE 9]],
      [kind |-> "number", fields |-> EmptyObject],
      [kind |-> "unserializable", fields |-> EmptyObject] }

\* serde_json::Map::insert
Put(obj, k, v) == [c \in (DOMAIN obj) \cup {k} |-> IF c = k THEN v ELSE obj[c]]

Get(b, org, dbOk) ==
    IF Connection(connection) = None
    THEN Res("get", org, 0, NoPayload, "Configuration", 0, <<>>, 0)
    ELSE LET sql == ToSql(b)
             args == BuildArguments(b)
         IN  IF dbOk /\ StatementOk(sql, args)
             THEN Res("get", org, 0, NoPayload, "Ok", 0, ExecSelect(sql, args, rows), 1)
             ELSE Res("get", org, 0, NoPayload, "Database", 0, <<>>, 1)

First(b, org, dbOk) ==
    IF Connection(connection) = None
    THEN Res("first", org, 0, NoPayload, "Configuration", 0, <<>>, 0)
    ELSE LET self == [b EXCEPT !.limit = Some(1)]
             sql == ToSql(self)
             args == BuildArguments(self)
             found == ExecSelect(sql, args, rows)
         IN  \* fetch_optional: the first row, if any
             IF dbOk /\ StatementOk(sql, args)
             THEN [Res("first", org, 0, NoPayload, "Ok", 0,
                       IF found = <<>> THEN <<>> ELSE <<Head(found)>>, 1) EXCEPT !.sql = sql]
             ELSE [Res("first", org, 0, NoPayload, "Database", 0, <<>>, 1) EXCEPT !.sql = sql]

\* The arguments of a paginate call.
PageOf(page, per_page) ==
    [kind |-> "page", fields |-> [c \in {"page", "per_page"} |-> IF c = "page" THEN page ELSE per_page]]

\* format!("SELECT COUNT(*) as count FROM {}", self.table)
CountSql(b) == <<"SELECT", "COUNT(*)", "as", "count", "FROM", b.table>>

\* A slip: the offset is page * per_page.
PaginateFromNextPage(b, org, page, per_page, failed) ==
    IF Connection(connection) = None
    THEN Res("paginate", org, 0, PageOf(page, per_page), "Configuration", 0, <<>>, 0)
    ELSE IF failed = "count"
    THEN Res("paginate", org, 0, PageOf(page, per_page), "Database", 0, <<>>, 1)
    ELSE LET total == Len(ExecSelect(CountSql(b), <<>>, rows))
             self == [b EXCEPT !.offset = Some(page * per_page),
                               !.limit  = Some(per_page)]
             sql == ToSql(self)
             args == BuildArguments(self)
         IN  IF failed = "none" /\ StatementOk(sql, args)
             THEN [Res("paginate", org, 0, PageOf(page, per_page), "Ok", total,
                       ExecSelect(sql, args, rows), 2) EXCEPT !.sql = sql]
             ELSE Res("paginate", org, 0, PageOf(page, per_page), "Database", 0, <<>>, 2)

\* failed: "none", or the statement the driver fails on: "count" or "select"
Paginate(b, org, page, per_page, failed) ==
    IF Connection(connection) = None
    THEN Res("paginate", org, 0, PageOf(page, per_page), "Configuration", 0, <<>>, 0)
    ELSE IF failed = "count"
    THEN Res("paginate", org, 0, PageOf(page, per_page), "Database", 0, <<>>, 1)
    ELSE LET total == Len(ExecSelect(CountSql(b), <<>>, rows))
             self == [b EXCEPT !.offset = Some((page - 1) * per_page),
                               !.limit  = Some(per_page)]
             sql == ToSql(self)
             args == BuildArguments(self)
         IN  IF failed = "none" /\ StatementOk(sql, args)
             THEN [Res("paginate", org, 0, PageOf(page, per_page), "Ok", total,
                       ExecSelect(sql, args, rows), 2) EXCEPT !.sql = sql]
             ELSE Res("paginate", org, 0, PageOf(page, per_page), "Database", 0, <<>>, 2)

\* The Orbit operations below give the table, the AUTO_INCREMENT counter and
\* the clock after the call, and what the call returned.  t is the reading
\* of chrono::Local::now() when the call takes one; dbOk is whether the
\* driver executes the statement.
Out(table, next, clock, res) ==
    [rows |-> table, nextId |-> next, now |-> clock, result |-> res]

Create(data, t, dbOk) ==
    IF Connection(connection) = None
    THEN Out(rows, nextId, now, Res("create", "none", 0, data, "Configuration", 0, <<>>, 0))
    ELSE IF data.kind = "unserializable"
    THEN \* serde_json::to_value(data).unwrap()
         Out(rows, nextId, now, Res("create", "none", 0, data, "panic", 0, <<>>, 0))
    ELSE IF data.kind # "object"
    THEN \* value.as_object().expect("Data must be an object")
         Out(rows, nextId, now, Res("create", "none", 0, data, "panic", 0, <<>>, 0))
    ELSE LET obj == IF TIMESTAMPS
                    THEN Put(Put(data.fields, "created_at", t), "updated_at", t)
                    ELSE data.fields
             clock == IF TIMESTAMPS THEN t ELSE now
             row == [c \in Columns |->
                        IF c \in DOMAIN obj THEN obj[c]
                        ELSE IF c = "id" THEN nextId ELSE Null]
         IN  IF dbOk
             THEN Out(rows \cup {row}, nextId + 1, clock,
                      Res("create", "none", nextId, data, "Ok", nextId, <<>>, 1))
             ELSE Out(rows, nextId, clock,
                      Res("create", "none", 0, data, "Database", 0, <<>>, 1))

Update(id, data, t, dbOk) ==
    IF Connection(connection) = None
    THEN Out(rows, nextId, now, Res("update", "none", id, data, "Configuration", 0, <<>>, 0))
    ELSE IF data.kind = "unserializable"
    THEN Out(rows, nextId, now, Res("update", "none", id, data, "panic", 0, <<>>, 0))
    ELSE IF data.kind # "object"
    THEN Out(rows, nextId, now, Res("update", "none", id, data, "panic", 0, <<>>, 0))
    ELSE LET obj == IF TIMESTAMPS THEN Put(data.fields, "updated_at", t) ELSE data.fields
             clock == IF TIMESTAMPS THEN t ELSE now
             hit == {r \in rows : r.id = id}
             changed == {[c \in Columns |-> IF c \in DOMAIN obj THEN obj[c] ELSE r[c]] : r \in hit}
         IN  \* an empty SET list is a syntax error
             IF dbOk /\ DOMAIN obj # {}
             THEN Out((rows \ hit) \cup changed, nextId, clock,
                      Res("update", "none", id, data, "Ok", Cardinality(hit), <<>>, 1))
             ELSE Out(rows, nextId, clock,
                      Res("update", "none", id, data, "Database", 0, <<>>, 1))

\* A slip: the SOFT_DELETES flag is not looked at.
DeleteAlwaysHard(id, t, dbOk) ==
    IF Connection(connection) = None
    THEN Out(rows, nextId, now, Res("delete", "none", id, NoPayload, "Configuration", 0, <<>>, 0))
    ELSE LET hit == {r \in rows : r.id = id}
         IN  IF dbOk
             THEN Out(rows \ hit, nextId, now,
                      Res("delete", "none", id, NoPayload, "Ok", Cardinality(hit), <<>>, 1))
             ELSE Out(rows, nextId, now,
                      Res("delete", "none", id, NoPayload, "Database", 0, <<>>, 1))

Delete(id, t, dbOk) ==
    IF Connection(connection) = None
    THEN Out(rows, nextId, now, Res("delete", "none", id, NoPayload, "Configuration", 0, <<>>, 0))
    ELSE LET hit == {r \in rows : r.id = id}
         IN  IF SOFT_DELETES
             THEN IF dbOk
                  THEN Out((rows \ hit) \cup {[r EXCEPT !.deleted_at = t] : r \in hit}, nextId, t,
                           Res("delete", "none", id, NoPayload, "Ok", Cardinality(hit), <<>>, 1))
                  ELSE Out(rows, nextId, t,
                           Res("delete", "none", id, NoPayload, "Database", 0, <<>>, 1))
             ELSE IF dbOk
                  THEN Out(rows \ hit, nextId, now,
                           Res("delete", "none", id, NoPayload, "Ok", Cardinality(hit), <<>>, 1))
                  ELSE Out(rows, nextId, now,
                           Res("delete", "none", id, NoPayload, "Database", 0, <<>>, 1))

ForceDelete(id, dbOk) ==
    IF Connection(connection) = None
    THEN Out(rows, nextId, now,
             Res("force_delete", "none", id, NoPayload, "Configuration", 0, <<>>, 0))
    ELSE LET hit == {r \in rows : r.id = id}
         IN  IF dbOk
             THEN Out(rows \ hit, nextId, now,
                      Res("force_delete", "none", id, NoPayload, "Ok", Cardinality(hit), <<>>, 1))
             ELSE Out(rows, nextId, now,
                      Res("force_delete", "none", id, NoPayload, "Database", 0, <<>>, 1))

Restore(id, dbOk) ==
    IF ~SOFT_DELETES
    THEN Out(rows, nextId, now, Res("restore", "none", id, NoPayload, "Ok", 0, <<>>, 0))
    ELSE IF Connection(connection) = None
    THEN Out(rows, nextId, now, Res("restore", "none", id, NoPayload, "Configuration", 0, <<>>, 0))
    ELSE LET hit == {r \in rows : r.id = id}
         IN  IF dbOk
             THEN Out((rows \ hit) \cup {[r EXCEPT !.deleted_at = Null] : r \in hit}, nextId, now,
                      Res("restore", "none", id, NoPayload, "Ok", Cardinality(hit), <<>>, 1))
             ELSE Out(rows, nextId, now,
                      Res("restore", "none", id, NoPayload, "Database", 0, <<>>, 1))

-----------------------------------------------------------------------------
(* Orbit calls as actions                                                  *)

Ids == {1, 2}           \* the self.id() of the instance a method is called on
Pages == {1, 2}
PerPages == {1, 2}
Clock == {now + 1}      \* a reading of the clock is later than the one before

\* `result` is what the last call returned: a call that returns a Builder
\* leaves none.
OrbitQuery ==
    /\ builder' = Query
    /\ ncalls' = 0
    /\ origin' = "query"
    /\ result' = NoResult
    /\ UNCHANGED <<pools, connection, SOFT_DELETES, TIMESTAMPS, rows, nextId, now, nops, mvars, svars>>

OrbitWithTrashed ==
    /\ builder' = WithTrashed
    /\ ncalls' = 0
    /\ origin' = "with_trashed"
    /\ result' = NoResult
    /\ UNCHANGED <<pools, connection, SOFT_DELETES, TIMESTAMPS, rows, nextId, now, nops, mvars, svars>>

\* A terminal call takes the Builder by value: none is left afterwards.
Consumed(res) ==
    /\ result' = [res EXCEPT !.chained = ncalls]
    /\ builder' = New(TableName)
    /\ ncalls' = 0
    /\ origin' = "none"
    /\ UNCHANGED <<pools, connection, SOFT_DELETES, TIMESTAMPS, rows, nextId, now, nops, mvars, svars>>

DoGet == origin # "none" /\ \E dbOk \in BOOLEAN : Consumed(Get(builder, origin, dbOk))

DoFirst == origin # "none" /\ \E dbOk \in BOOLEAN : Consumed(First(builder, origin, dbOk))

DoPaginate ==
    origin # "none" /\ \E page \in Pages, per_page \in PerPages, failed \in {"none", "count", "select"} :
                           Consumed(Paginate(builder, origin, page, per_page, failed))

Returned(out) ==
    /\ rows' = out.rows
    /\ nextId' = out.nextId
    /\ now' = out.now
    /\ result' = out.result
    /\ nops' = nops + 1
    /\ UNCHANGED <<bvars, pools, connection, SOFT_DELETES, TIMESTAMPS, mvars, svars>>

CanOp == nops < MaxOps

OrbitCreate ==
    CanOp /\ \E data \in Payloads, t \in Clock, dbOk \in BOOLEAN : Returned(Create(data, t, dbOk))

OrbitUpdate ==
    CanOp /\ \E id \in Ids, data \in Payloads, t \in Clock, dbOk \in BOOLEAN :
                 Returned(Update(id, data, t, dbOk))

OrbitDelete ==
    CanOp /\ \E id \in Ids, t \in Clock, dbOk \in BOOLEAN : Returned(Delete(id, t, dbOk))

OrbitForceDelete ==
    CanOp /\ \E id \in Ids, dbOk \in BOOLEAN : Returned(ForceDelete(id, dbOk))

OrbitRestore ==
    CanOp /\ \E id \in Ids, dbOk \in BOOLEAN : Returned(Restore(id, dbOk))

\* An entity type (its connection and flags), a DatabaseManager as populated
\* at startup, and an empty table.
InitOrbit ==
    /\ builder = New(TableName)
    /\ ncalls = 0
    /\ origin = "none"
    /\ pools \in {{}, {DefaultName}}
    /\ connection \in {None, Some("reports")}
    /\ SOFT_DELETES \in BOOLEAN
    /\ TIMESTAMPS \in BOOLEAN
    /\ rows = {}
    /\ nextId = 1
    /\ now = 1
    /\ nops = 0
    /\ result = NoResult
    /\ NoMigrator
    /\ NoSchema

NextOrbit ==
    \/ OrbitQuery
    \/ OrbitWithTrashed
    \/ DoGet
    \/ DoFirst
    \/ DoPaginate
    \/ OrbitCreate
    \/ OrbitUpdate
    \/ OrbitDelete
    \/ OrbitForceDelete
    \/ OrbitRestore

SpecOrbit == InitOrbit /\ [][NextOrbit]_vars

-----------------------------------------------------------------------------
(* Migrator (database/migrator.rs)                                         *)

\* The file stems a directory can hold, in the order paths.sort() gives.
\* Every file has a non-empty UP (create the table) and DOWN (drop it).
Names == <<"m1_create_posts", "m2_create_tags">>

\* The files whose UP is `CREATE TABLE IF NOT EXISTS ..`, the text the
\* create-table generator writes; the UP of the others is the plain
\* `CREATE TABLE ..` of the make:migration template.
IfNotExists == {Names[1]}

\* A slip: the names are walked in the order they were read.
Forward(seq) == seq

\* .iter().rev()
Reverse(seq) == [i \in 1..Len(seq) |-> seq[Len(seq) + 1 - i]]

\* load_migrations: the files of the directory, sorted by name.
LoadMigrations(dir) == SelectSeq(Names, LAMBDA n : n \in dir)

\* SELECT migration FROM migrations
RanMigrations(table) == {table[i].migration : i \in 1..Len(table)}

\* SELECT MAX(batch) FROM migrations
MaxBatch(table) ==
    IF table = <<>> THEN None
    ELSE Some(CHOOSE b \in {table[i].batch : i \in 1..Len(table)} :
                  \A i \in 1..Len(table) : table[i].batch <= b)

\* SELECT migration FROM migrations WHERE batch = ?
OfBatch(table, batch) ==
    LET hit == SelectSeq(table, LAMBDA r : r.batch = batch)
    IN  [i \in 1..Len(hit) |-> hit[i].migration]

\* A slip: every loaded migration is applied, recorded or not.
PendingAll(migrations, ran_migrations) == migrations

\* run()'s loop applies the loaded migrations that are not recorded.
Pending(migrations, ran_migrations) ==
    SelectSeq(migrations, LAMBDA n : n \notin ran_migrations)

\* The invocation returns: its locals are dropped.
Ret(m, res) ==
    [m EXCEPT !.pc = "done", !.result = res, !.migrations = <<>>,
              !.ran_migrations = {}, !.batch = 0, !.todo = <<>>]

\* A slip: the error of a section is noted and the loop goes on.
FailedGoesOn(m, section) ==
    IF Tail(m.todo) = <<>> THEN Ret([m EXCEPT !.failed = section], "Ok")
    ELSE [m EXCEPT !.failed = section, !.todo = Tail(@)]

\* pool.execute(up_sql / down_sql).await? on an error: the invocation
\* returns it.
Failed(m, section) == Ret([m EXCEPT !.failed = section], "Database")

\* A slip: the loop takes every name, with or without a file.
PresentAll(names, loaded) == names

\* rollback: `if let Some(migration) = migration_map.get(name)`; the names
\* with no loaded file are passed over.
Present(names, loaded) == SelectSeq(names, LAMBDA n : n \in loaded)

Sequential == \A q \in Procs : mig[q].pc = "done"

Start(p, kind) ==
    /\ mig[p].pc = "done"
    /\ nruns < MaxRuns
    /\ mig' = [mig EXCEPT ![p] =
                  [IdleProc EXCEPT !.pc = "ensure", !.kind = kind, !.pre = tracking,
                                   !.prev = [kind |-> mig[p].kind, result |-> mig[p].result,
                                             pre |-> mig[p].pre, inserts |-> mig[p].inserts],
                                   !.clean = ~touched]]
    /\ touched' = FALSE
    /\ nruns' = nruns + 1
    /\ UNCHANGED <<bvars, ovars, svars, tracking, schema, files, migrations_table>>

\* What an awaited statement of the invocation leaves alone besides `mig`.
Frame == UNCHANGED <<bvars, ovars, svars, files, touched, nruns>>

\* ensure_migration_table succeeded; the synchronous load_migrations follows.
Loaded(m) ==
    [m EXCEPT !.migrations = LoadMigrations(files),
              !.pc = IF m.kind = "run" THEN "select_ran" ELSE "select_max"]

\* default_connection().expect(..), then SHOW TABLES LIKE 'migrations'
ShowTables(p) ==
    /\ mig[p].pc = "ensure"
    /\ \E dbOk \in BOOLEAN :
           mig' = [mig EXCEPT ![p] =
                      IF DefaultName \notin pools THEN Ret(@, "panic")
                      ELSE IF ~dbOk THEN Ret(@, "Database")
                      ELSE IF migrations_table THEN Loaded(@)
                      ELSE [@ EXCEPT !.pc = "create_table"]]
    /\ Frame
    /\ UNCHANGED <<tracking, schema, migrations_table>>

\* CREATE TABLE migrations (..)
CreateTable(p) ==
    /\ mig[p].pc = "create_table"
    /\ \E dbOk \in BOOLEAN :
           IF dbOk /\ ~migrations_table
           THEN /\ migrations_table' = TRUE
                /\ mig' = [mig EXCEPT ![p] = Loaded(@)]
           ELSE /\ migrations_table' = migrations_table
                /\ mig' = [mig EXCEPT ![p] = Ret(@, "Database")]
    /\ Frame
    /\ UNCHANGED <<tracking, schema>>

\* run: SELECT migration FROM migrations
SelectRan(p) ==
    /\ mig[p].pc = "select_ran"
    /\ \E dbOk \in BOOLEAN :
           mig' = [mig EXCEPT ![p] =
                      IF dbOk
                      THEN [@ EXCEPT !.ran_migrations = RanMigrations(tracking),
                                     !.pc = "select_max"]
                      ELSE Ret(@, "Database")]
    /\ Frame
    /\ UNCHANGED <<tracking, schema, migrations_table>>

\* run: SELECT MAX(batch) FROM migrations, its error taken for None; the
\* loop then stops at the first migration that is not recorded.
RunSelectMax(p) ==
    /\ mig[p].pc = "select_max"
    /\ mig[p].kind = "run"
    /\ \E dbOk \in BOOLEAN :
           LET last_batch == IF dbOk THEN MaxBatch(tracking) ELSE None
               batch == (IF last_batch = None THEN 0 ELSE last_batch[1]) + 1
               todo == Pending(mig[p].migrations, mig[p].ran_migrations)
           IN  mig' = [mig EXCEPT ![p] =
                          IF todo = <<>> THEN Ret(@, "Ok")
                          ELSE [@ EXCEPT !.batch = batch, !.todo = todo, !.pc = "up"]]
    /\ Frame
    /\ UNCHANGED <<tracking, schema, migrations_table>>

\* run: pool.execute(up_sql); a plain CREATE TABLE fails on a table that
\* exists.
Up(p) ==
    /\ mig[p].pc = "up"
    /\ \E dbOk \in BOOLEAN :
           LET name == Head(mig[p].todo)
           IN  IF dbOk /\ (name \notin schema \/ name \in IfNotExists)
               THEN /\ schema' = schema \cup {name}
                    /\ mig' = [mig EXCEPT ![p] = [@ EXCEPT !.ups = @ + 1, !.pc = "insert",
                                                     !.log = Append(@, <<"up", name>>)]]
               ELSE /\ schema' = schema
                    /\ mig' = [mig EXCEPT ![p] =
                                  Failed([@ EXCEPT !.ups = @ + 1,
                                                   !.log = Append(@, <<"up", name>>)], "up")]
    /\ Frame
    /\ UNCHANGED <<tracking, migrations_table>>

\* A slip: a name that has a row is not inserted again.
InsertOnce(p) ==
    /\ mig[p].pc = "insert"
    /\ LET name == Head(mig[p].todo)
           rest == Tail(mig[p].todo)
       IN  /\ tracking' = IF name \in RanMigrations(tracking) THEN tracking
                          ELSE Append(tracking, [migration |-> name, batch |-> mig[p].batch])
           /\ mig' = [mig EXCEPT ![p] =
                         LET done == [@ EXCEPT !.inserts = @ + 1,
                                               !.log = Append(@, <<"insert", name>>)]
                         IN  IF rest = <<>> THEN Ret(done, "Ok")
                             ELSE [done EXCEPT !.todo = rest, !.pc = "up"]]
    /\ Frame
    /\ UNCHANGED <<schema, migrations_table>>

\* run: INSERT INTO migrations (migration, batch) VALUES (?, ?)
Insert(p) ==
    /\ mig[p].pc = "insert"
    /\ \E dbOk \in BOOLEAN :
           LET name == Head(mig[p].todo)
               rest == Tail(mig[p].todo)
           IN  IF dbOk
               THEN /\ tracking' = Append(tracking, [migration |-> name, batch |-> mig[p].batch])
                    /\ mig' = [mig EXCEPT ![p] =
                                  LET done == [@ EXCEPT !.inserts = @ + 1,
                                                        !.log = Append(@, <<"insert", name>>)]
                                  IN  IF rest = <<>> THEN Ret(done, "Ok")
                                      ELSE [done EXCEPT !.todo = rest, !.pc = "up"]]
               ELSE /\ tracking' = tracking
                    /\ mig' = [mig EXCEPT ![p] = Failed(@, IF @.kind = "run" THEN "insert" ELSE "delete")]
    /\ Frame
    /\ UNCHANGED <<schema, migrations_table>>

\* rollback: SELECT MAX(batch) FROM migrations
RollbackSelectMax(p) ==
    /\ mig[p].pc = "select_max"
    /\ mig[p].kind = "rollback"
    /\ \E dbOk \in BOOLEAN :
           LET last_batch == MaxBatch(tracking)
           IN  mig' = [mig EXCEPT ![p] =
                          IF ~dbOk THEN Ret(@, "Database")
                          ELSE IF last_batch = None THEN Ret(@, "Ok")
                          ELSE [@ EXCEPT !.batch = last_batch[1], !.pc = "select_batch"]]
    /\ Frame
    /\ UNCHANGED <<tracking, schema, migrations_table>>

\* rollback: SELECT migration FROM migrations WHERE batch = ?; the loop then
\* skips, in reverse order, the names that have no loaded file.
SelectBatch(p) ==
    /\ mig[p].pc = "select_batch"
    /\ \E dbOk \in BOOLEAN :
           LET migrations_to_rollback == OfBatch(tracking, mig[p].batch)
               loaded == {mig[p].migrations[i] : i \in 1..Len(mig[p].migrations)}
               todo == Present(Reverse(migrations_to_rollback), loaded)
               skipped == Len(migrations_to_rollback) - Len(todo)
           IN  mig' = [mig EXCEPT ![p] =
                          IF ~dbOk THEN Ret(@, "Database")
                          ELSE IF todo = <<>> THEN Ret([@ EXCEPT !.skipped = skipped], "Ok")
                          ELSE [@ EXCEPT !.skipped = skipped, !.todo = todo, !.pc = "down"]]
    /\ Frame
    /\ UNCHANGED <<tracking, schema, migrations_table>>

\* rollback: pool.execute(down_sql); DROP TABLE fails on a table that is not there.
Down(p) ==
    /\ mig[p].pc = "down"
    /\ \E dbOk \in BOOLEAN :
           LET name == Head(mig[p].todo)
           IN  IF dbOk /\ name \in schema
               THEN /\ schema' = schema \ {name}
                    /\ mig' = [mig EXCEPT ![p] =
                                  [@ EXCEPT !.pc = "delete", !.log = Append(@, <<"down", name>>)]]
               ELSE /\ schema' = schema
                    /\ mig' = [mig EXCEPT ![p] =
                                  Failed([@ EXCEPT !.log = Append(@, <<"down", name>>)], "down")]
    /\ Frame
    /\ UNCHANGED <<tracking, migrations_table>>

\* rollback: DELETE FROM migrations WHERE migration = ?
DeleteRow(p) ==
    /\ mig[p].pc = "delete"
    /\ \E dbOk \in BOOLEAN :
           LET name == Head(mig[p].todo)
               rest == Tail(mig[p].todo)
           IN  IF dbOk
               THEN /\ tracking' = SelectSeq(tracking, LAMBDA r : r.migration # name)
                    /\ mig' = [mig EXCEPT ![p] =
                                  LET done == [@ EXCEPT !.log = Append(@, <<"delete", name>>)]
                                  IN  IF rest = <<>> THEN Ret(done, "Ok")
                                      ELSE [done EXCEPT !.todo = rest, !.pc = "down"]]
               ELSE /\ tracking' = tracking
                    /\ mig' = [mig EXCEPT ![p] = Failed(@, IF @.kind = "run" THEN "insert" ELSE "delete")]
    /\ Frame
    /\ UNCHANGED <<schema, migrations_table>>

\* A migration file is written to the directory, or removed from it.
AddFile ==
    /\ Sequential
    /\ \E i \in 1..Len(Names) :
           /\ Names[i] \notin files
           /\ files' = files \cup {Names[i]}
    /\ touched' = TRUE
    /\ UNCHANGED <<bvars, ovars, svars, mig, tracking, schema, migrations_table, nruns>>

RemoveFile ==
    /\ Sequential
    /\ \E n \in files : files' = files \ {n}
    /\ touched' = TRUE
    /\ UNCHANGED <<bvars, ovars, svars, mig, tracking, schema, migrations_table, nruns>>

\* One invocation at a time, in slot 1.
MigratorRun == Sequential /\ Start(1, "run")

MigratorRollback == Sequential /\ Start(1, "rollback")

InitMigrator ==
    /\ builder = New(TableName)
    /\ ncalls = 0
    /\ origin = "none"
    /\ pools \in {{}, {DefaultName}}
    /\ connection = None
    /\ SOFT_DELETES = FALSE
    /\ TIMESTAMPS = TRUE
    /\ rows = {}
    /\ nextId = 1
    /\ now = 1
    /\ nops = 0
    /\ result = NoResult
    /\ mig = [p \in Procs |-> IdleProc]
    /\ tracking = <<>>
    /\ schema = {}
    /\ files \in SUBSET {Names[i] : i \in 1..Len(Names)}
    /\ migrations_table = FALSE
    /\ touched = FALSE
    /\ nruns = 0
    /\ NoSchema

NextMigrator ==
    \/ MigratorRun
    \/ MigratorRollback
    \/ ShowTables(1)
    \/ CreateTable(1)
    \/ SelectRan(1)
    \/ RunSelectMax(1)
    \/ Up(1)
    \/ Insert(1)
    \/ RollbackSelectMax(1)
    \/ SelectBatch(1)
    \/ Down(1)
    \/ DeleteRow(1)
    \/ AddFile
    \/ RemoveFile

SpecMigrator == InitMigrator /\ [][NextMigrator]_vars

\* A table with a live row and a soft-deleted one, as create, create and
\* delete leave it.
SeedRows ==
    { [c \in Columns |->
          CASE c = "id"  -> 1
            [] c = "age" -> 17
            [] c \in {"created_at", "updated_at"} -> 1
            [] OTHER -> Null],
      [c \in Columns |->
          CASE c = "id"  -> 2
            [] c = "age" -> 30
            [] c \in {"created_at", "updated_at"} -> 1
            [] OTHER -> 2] }

InitQuery ==
    /\ builder = New(TableName)
    /\ ncalls = 0
    /\ origin = "none"
    /\ pools = {DefaultName}
    /\ connection = None
    /\ SOFT_DELETES \in BOOLEAN
    /\ TIMESTAMPS = TRUE
    /\ rows = SeedRows
    /\ nextId = 3
    /\ now = 2
    /\ nops = 0
    /\ result = NoResult
    /\ NoMigrator
    /\ NoSchema

\* Builders made by query() / with_trashed(), chained and executed.
NextQuery ==
    \/ OrbitQuery
    \/ OrbitWithTrashed
    \/ DoWhere
    \/ DoOrWhere
    \/ DoWhereIn
    \/ DoWhereNull
    \/ DoWhereRaw
    \/ DoLimit
    \/ DoGet
    \/ DoFirst
    \/ DoPaginate

SpecQuery == InitQuery /\ [][NextQuery]_vars

\* Builders made by query() / with_trashed(), given predicates, a limit and
\* an offset, and paginated.
NextPaginate ==
    \/ OrbitQuery
    \/ OrbitWithTrashed
    \/ DoWhere
    \/ DoOrWhere
    \/ DoLimit
    \/ DoOffset
    \/ DoPaginate

SpecPaginate == InitQuery /\ [][NextPaginate]_vars

-----------------------------------------------------------------------------
(* Soft deletes, connections, payloads, timestamps                         *)

Range(seq) == {seq[i] : i \in 1..Len(seq)}

\* What b.get() returns on `table`.
Fetch(b, table) == ExecSelect(ToSql(b), BuildArguments(b), table)

IsFetch(res) == res.op \in {"get", "first", "paginate"} /\ res.status = "Ok"

\* C3: for an entity with SOFT_DELETES, a Builder from query() never returns
\* a row whose deleted_at is set, whatever is chained before the terminal
\* call; a Builder from with_trashed() with nothing chained returns every
\* row of the table.
C3_SoftDeleteFilter ==
    (SOFT_DELETES /\ IsFetch(result)) =>
        /\ result.origin = "query" =>
               \A r \in Range(result.rows) : r.deleted_at = Null
        /\ (result.origin = "with_trashed" /\ result.chained = 0 /\ result.op = "get") =>
               Range(result.rows) = rows

\* The name the entity's calls resolve is not registered.
Unresolved == (IF connection = None THEN DefaultName ELSE connection[1]) \notin pools

\* C7: with the entity's connection name (the default one when it names
\* none) not registered, get, first, paginate, create, update, delete and
\* force_delete return the Configuration error, not the Database one, and
\* execute no statement.
C7_ConfigurationError ==
    (Unresolved /\ result.op \in {"get", "first", "paginate", "create", "update",
                                   "delete", "force_delete"}) =>
        /\ result.status = "Configuration"
        /\ result.stmts = 0
        /\ rows = {}

\* Witness of C7: a create with an object payload on an entity that names a
\* connection the manager does not hold, while the default one is registered.
C7_Witness ==
    /\ connection = Some("reports")
    /\ pools = {DefaultName}
    /\ result.op = "create"
    /\ result.data.kind = "object"
    /\ result.status = "Configuration"

\* C8: no core operation panics on an expected failure path: create / update
\* with a payload that is no JSON object return a serialization error and
\* execute no statement, and no Migrator invocation ends in a panic.
C8_NoPanic ==
    /\ result.status # "panic"
    /\ \A p \in Procs : mig[p].result # "panic"
    /\ (result.op \in {"create", "update"} /\ ~Unresolved
            /\ result.data.kind \in {"number", "unserializable"}) =>
           (result.status = "Serialization" /\ result.stmts = 0)

\* A create / update / delete / force_delete / restore call has just returned Ok.
Returns(op) == nops' = nops + 1 /\ result'.op = op /\ result'.status = "Ok"

CreateStamps ==
    Returns("create") =>
        \E r \in rows' :
            /\ rows' = rows \cup {r}
            /\ r \notin rows
            /\ r.id = result'.value
            /\ r.created_at = r.updated_at
            /\ r.created_at = now'
            /\ now' # now

\* The row self.id() names gets the payload's columns and updated_at, and
\* keeps its other columns; the other rows stay.
UpdateWrites ==
    Returns("update") =>
        LET id == result'.id
            obj == result'.data.fields
        IN  /\ \A r \in rows : r.id # id => r \in rows'
            /\ {r.id : r \in rows'} = {r.id : r \in rows}
            /\ \A r \in rows, r2 \in rows' :
                   (r.id = id /\ r2.id = id) =>
                       /\ r2.updated_at = now'
                       /\ \A c \in DOMAIN obj \ {"updated_at"} : r2[c] = obj[c]
                       /\ \A c \in Columns \ (DOMAIN obj \cup {"updated_at"}) :
                              r2[c] = r[c]

UpdateKeepsCreatedAt ==
    Returns("update") =>
        \A r \in rows, r2 \in rows' : r.id = r2.id => r2.created_at = r.created_at

\* C9: with TIMESTAMPS, create() stores created_at equal to
\* updated_at, and update() writes only the payload's columns and updated_at
\* on the row self.id() names, and never changes created_at or another row.
C9_UpdateKeepsCreatedAt ==
    [][TIMESTAMPS => (CreateStamps /\ UpdateWrites /\ UpdateKeepsCreatedAt)]_vars

\* C10: with SOFT_DELETES, delete() keeps the row and sets its deleted_at, so
\* that query() hides it and with_trashed() returns it, and restore() clears
\* deleted_at, so that query() returns it; force_delete() removes the row
\* whatever the flag; without SOFT_DELETES, delete() removes the row and
\* restore() changes nothing and returns 0.
C10_DeleteRestore ==
    [][ LET id == result'.id
            hit == {r \in rows : r.id = id}
            kept == {r \in rows' : r.id = id}
        IN  /\ (Returns("delete") /\ SOFT_DELETES) =>
                   /\ rows \ hit \subseteq rows'
                   /\ Cardinality(kept) = Cardinality(hit)
                   /\ \A r \in kept :
                          /\ r.deleted_at # Null
                          /\ r \notin Range(Fetch(Query, rows'))
                          /\ r \in Range(Fetch(WithTrashed, rows'))
            /\ (Returns("restore") /\ SOFT_DELETES) =>
                   /\ rows \ hit \subseteq rows'
                   /\ Cardinality(kept) = Cardinality(hit)
                   /\ \A r \in kept :
                          /\ r.deleted_at = Null
                          /\ r \in Range(Fetch(Query, rows'))
            /\ Returns("force_delete") => rows' = rows \ hit
            /\ (Returns("delete") /\ ~SOFT_DELETES) => rows' = rows \ hit
            /\ (nops' = nops + 1 /\ result'.op = "restore" /\ ~SOFT_DELETES) =>
                   /\ rows' = rows
                   /\ result'.status = "Ok"
                   /\ result'.value = 0
                   /\ result'.stmts = 0 ]_vars

\* Witness of C10: a soft delete of one of two rows has returned 1 and the
\* row is still in the table, marked.
C10_Witness ==
    /\ SOFT_DELETES
    /\ result.op = "delete" /\ result.status = "Ok" /\ result.value = 1
    /\ Cardinality(rows) = 2
    /\ \E r \in rows : r.id = result.id /\ r.deleted_at # Null

-----------------------------------------------------------------------------
(* Migrations                                                              *)

\* The invocation of slot p was `kind` and has returned `res`.
Ended(p, kind, res) == mig[p].pc = "done" /\ mig[p].kind = kind /\ mig[p].result = res

BelowHighest(table) ==
    IF table = <<>> THEN <<>>
    ELSE SelectSeq(table, LAMBDA r : r.batch # MaxBatch(table)[1])

\* C4: a rollback() that returns success has removed from the tracking table
\* exactly the rows of the highest recorded batch: none of them remains and
\* the rows of the lower batches are unchanged.
C4_RollbackRemovesHighestBatch ==
    \A p \in Procs : Ended(p, "rollback", "Ok") => tracking = BelowHighest(mig[p].pre)

\* C5: a run() that follows a successful run() with no change of the
\* directory in between sends no UP section and inserts no tracking row: the
\* tracking table stays as it found it.
C5_SecondRunIdle ==
    \A p \in Procs :
        (/\ mig[p].kind = "run"
         /\ mig[p].prev.kind = "run"
         /\ mig[p].prev.result = "Ok"
         /\ mig[p].clean) =>
            /\ mig[p].ups = 0
            /\ mig[p].inserts = 0
            /\ tracking = mig[p].pre

\* Witness of C5: the second run() has returned Ok after a first one that
\* applied and recorded both migrations.
C5_Witness ==
    /\ Ended(1, "run", "Ok")
    /\ mig[1].prev.kind = "run" /\ mig[1].prev.result = "Ok" /\ mig[1].prev.inserts = 2
    /\ mig[1].clean
    /\ Len(tracking) = 2

\* C6: from an empty tracking table and a directory of one file, run()
\* leaves one tracking row of batch 1 and the table created, and the
\* rollback() after it leaves no tracking row and the table dropped; in
\* general a rollback() that follows a run() which recorded at least one
\* migration, with no file of the batch missing, leaves the tracking table
\* as it was before the run().
C6_RunThenRollback ==
    \A p \in Procs :
        /\ (Ended(p, "run", "Ok") /\ mig[p].pre = <<>> /\ ~touched) =>
               \A n \in files :
                   files = {n} => (tracking = <<[migration |-> n, batch |-> 1]>> /\ n \in schema)
        /\ (/\ Ended(p, "rollback", "Ok")
            /\ mig[p].prev.kind = "run" /\ mig[p].prev.result = "Ok"
            /\ mig[p].prev.pre = <<>>
            /\ mig[p].clean /\ ~touched) =>
               \A n \in files : files = {n} => (tracking = <<>> /\ n \notin schema)
        /\ (/\ Ended(p, "rollback", "Ok")
            /\ mig[p].prev.kind = "run" /\ mig[p].prev.inserts >= 1
            /\ mig[p].skipped = 0) =>
               tracking = mig[p].prev.pre

-----------------------------------------------------------------------------
(* Rendering                                                               *)

\* A step that is a to_sql() call: the only one that leaves the count of
\* chained calls alone and has a text to show.
ToSqlStep == ncalls' = ncalls /\ origin' = origin /\ result'.op = "to_sql"

RECURSIVE LeadingDistinct(_)
LeadingDistinct(expr) ==
    IF StartsWithDistinct(expr) THEN 1 + LeadingDistinct(Tail(expr)) ELSE 0

-----------------------------------------------------------------------------
(* Relationships (orbit/mod.rs)                                            *)

PrimaryKey == "id"      \* Orbit::primary_key(), not overridden

\* The owners a relationship is asked of, and the pivots it goes through.
OwnerIds == {7, 2}
Pivots ==
    { [pivot_table |-> "role_user", foreign_key |-> "user_id", related_key |-> "role_id"],
      [pivot_table |-> "follows", foreign_key |-> "follower_id", related_key |-> "followed_id"] }

\* A slip: the two keys of the pivot change places.
BelongsToManySwapped(id, pivot_table, foreign_key, related_key) ==
    WhereEq(Join(Select(Query, <<TableName \o ".*">>),
                 pivot_table, TableName \o "." \o PrimaryKey, "=",
                 pivot_table \o "." \o foreign_key),
            pivot_table \o "." \o related_key, id)

\* self.belongs_to_many::<R>(pivot_table, foreign_key, related_key), with
\* the entity at hand as R and id as self.id()
BelongsToMany(id, pivot_table, foreign_key, related_key) ==
    WhereEq(Join(Select(Query, <<TableName \o ".*">>),
                 pivot_table, TableName \o "." \o PrimaryKey, "=",
                 pivot_table \o "." \o related_key),
            pivot_table \o "." \o foreign_key, id)

OrbitBelongsToMany ==
    \E id \in OwnerIds, pv \in Pivots :
        /\ builder' = BelongsToMany(id, pv.pivot_table, pv.foreign_key, pv.related_key)
        /\ ncalls' = 0
        /\ origin' = "belongs_to_many"
        /\ result' = [NoResult EXCEPT !.op = "belongs_to_many", !.id = id,
                                      !.data = [kind |-> "relation", fields |-> pv]]
        /\ UNCHANGED <<pools, connection, SOFT_DELETES, TIMESTAMPS, rows, nextId, now, nops, mvars, svars>>

InitRelation ==
    /\ builder = New(TableName)
    /\ ncalls = 0
    /\ origin = "none"
    /\ pools = {DefaultName}
    /\ connection = None
    /\ SOFT_DELETES \in BOOLEAN
    /\ TIMESTAMPS = TRUE
    /\ rows = {}
    /\ nextId = 1
    /\ now = 1
    /\ nops = 0
    /\ result = NoResult
    /\ NoMigrator
    /\ NoSchema

\* A relationship Builder, chained further and rendered.
NextRelation ==
    \/ OrbitBelongsToMany
    \/ DoWhere
    \/ DoLimit
    \/ DoToSql

SpecRelation == InitRelation /\ [][NextRelation]_vars

\* C13: the Builder belongs_to_many returns for an owner with id n is over
\* the related table, selects `related.*`, has one inner join of the pivot on
\* `related.<pk> = pivot.related_key`, ends its predicates with
\* `pivot.foreign_key = ?` and binds n to it; the call executes nothing.
C13_BelongsToMany ==
    (result.op = "belongs_to_many" /\ ncalls = 0) =>
        LET pv == result.data.fields
            last == builder.wheres[Len(builder.wheres)]
        IN  /\ builder.table = TableName
            /\ builder.select = << <<TableName \o ".*">> >>
            /\ builder.joins = << <<"INNER", "JOIN", pv.pivot_table, "ON",
                                    TableName \o "." \o PrimaryKey, "=",
                                    pv.pivot_table \o "." \o pv.related_key>> >>
            /\ last = <<pv.pivot_table \o "." \o pv.foreign_key, "=", "?">>
            /\ BuildArguments(builder) = <<result.id>>
            /\ CountPlaceholders(ToSql(builder)) = 1
            /\ builder.limit = None /\ builder.offset = None /\ builder.order = <<>>
            /\ result.stmts = 0 /\ result.status = "none"

\* Witness of C13: pivot role_user, foreign key user_id, related key role_id,
\* owner 7, on an entity without soft deletes.
C13_Witness ==
    /\ result.op = "belongs_to_many" /\ ncalls = 0
    /\ ToSql(builder) = <<"SELECT", "users.*", "FROM", "users",
                          "INNER", "JOIN", "role_user", "ON", "users.id", "=", "role_user.role_id",
                          "WHERE", "role_user.user_id", "=", "?">>
    /\ BuildArguments(builder) = <<7>>

-----------------------------------------------------------------------------
(* Pagination                                                              *)

\* A step that is a paginate() call which returned Ok.
PaginateStep ==
    origin # "none" /\ origin' = "none" /\ result'.op = "paginate" /\ result'.status = "Ok"

\* The per_page elements of seq that follow its first `skip` ones.
Window(seq, skip, per_page) ==
    [i \in 1..(IF Len(seq) - skip < 0 THEN 0
               ELSE IF Len(seq) - skip < per_page THEN Len(seq) - skip ELSE per_page)
        |-> seq[skip + i]]

NumberAfter(sql, word) == sql[IndexOf(sql, word) + 1]

C15_UniqueMigration ==
    \A i, j \in 1..Len(tracking) :
        i # j => tracking[i].migration # tracking[j].migration

\* Witness of C15: the third invocation, a run(), has returned on a tracking
\* table that holds two migrations recorded by two different runs.
C15_Witness ==
    /\ Ended(1, "run", "Ok") /\ nruns = 3
    /\ Len(tracking) = 2
    /\ tracking[1].batch # tracking[2].batch

-----------------------------------------------------------------------------
(* Schema text                                                             *)

\* The columns a Blueprint call adds, by name.
NamesOf(call) ==
    CASE call[1] = "id" -> <<"id">>
      [] call[1] = "timestamps" -> <<"created_at", "updated_at">>
      [] call[1] \in {"nullable", "unique", "default"} -> <<>>
      [] OTHER -> <<call[2]>>

ExpectedNames(calls) == Flatten([i \in 1..Len(calls) |-> NamesOf(calls[i])])

\* C16: the text of Schema::create is CREATE TABLE table ( ... ) with one
\* definition per column in the order the Blueprint calls added them, then,
\* when id() was called, one PRIMARY KEY (id) entry as the last element and
\* nowhere else; timestamps() adds created_at and then updated_at, each with
\* a CURRENT_TIMESTAMP default.
C16_SchemaCreate ==
    LET lines == BlueprintLines(blueprint)
        names == ExpectedNames(blueprint.calls)
        keyed == \E i \in 1..Len(blueprint.calls) : blueprint.calls[i] = <<"id">>
        key   == <<"PRIMARY KEY", "(", "id", ")">>
    IN  /\ Len(lines) = Len(names) + (IF keyed THEN 1 ELSE 0)
        /\ \A i \in 1..Len(names) : lines[i][1] = names[i] /\ lines[i] # key
        /\ keyed => lines[Len(lines)] = key
        /\ \A i \in 1..Len(names) :
               names[i] = "created_at" =>
                   /\ lines[i] = <<"created_at", "DATETIME", "NOT NULL", "DEFAULT", "CURRENT_TIMESTAMP">>
                   /\ lines[i + 1] = <<"updated_at", "DATETIME", "NOT NULL", "DEFAULT",
                                       "CURRENT_TIMESTAMP ON UPDATE CURRENT_TIMESTAMP">>
        /\ result.op = "schema_create" =>
               result.sql = <<"CREATE", "TABLE", blueprint.table, "(">>
                            \o JoinWith(lines, <<",">>) \o <<")", TableOptions>>

\* Witness of C16: the callback called id(), string("email") and
\* timestamps(); the text is the one returned.
C16_Witness ==
    /\ blueprint.calls = << <<"id">>, <<"string", "email">>, <<"timestamps">> >>
    /\ result.op = "schema_create"
    /\ result.sql = <<"CREATE", "TABLE", "users", "(",
                      "id", "BIGINT", "NOT NULL", "AUTO_INCREMENT", ",",
                      "email", "VARCHAR(255)", "NOT NULL", ",",
                      "created_at", "DATETIME", "NOT NULL", "DEFAULT", "CURRENT_TIMESTAMP", ",",
                      "updated_at", "DATETIME", "NOT NULL", "DEFAULT",
                      "CURRENT_TIMESTAMP ON UPDATE CURRENT_TIMESTAMP", ",",
                      "PRIMARY KEY", "(", "id", ")",
                      ")", TableOptions>>

\* The UPs and inserts of a run() over the unrecorded migrations `names`.
RECURSIVE RunLog(_)
RunLog(names) ==
    IF names = <<>> THEN <<>>
    ELSE << <<"up", Head(names)>>, <<"insert", Head(names)>> >> \o RunLog(Tail(names))

IsPrefix(s, t) == Len(s) <= Len(t) /\ SubSeq(t, 1, Len(s)) = s

\* The names of the rows an invocation inserted, in order.
Inserted(log) ==
    LET ins == SelectSeq(log, LAMBDA e : e[1] = "insert")
    IN  [i \in 1..Len(ins) |-> ins[i][2]]

\* C17: a run() sends the UP sections of the files that have no tracking
\* row, in ascending file-name order and of no other file, inserts each
\* tracking row after its own UP and before the next UP, and records all of
\* them under one batch: the highest recorded batch plus one, 1 on an empty
\* tracking table; a run() that returns Ok has gone through all of them.
C17_RunAppliesPending ==
    \A p \in Procs :
        (mig[p].kind = "run" /\ ~touched) =>
            LET m == mig[p]
                expected == RunLog(Pending(LoadMigrations(files), RanMigrations(m.pre)))
                batch == IF m.pre = <<>> THEN 1 ELSE MaxBatch(m.pre)[1] + 1
                names == Inserted(m.log)
            IN  /\ IsPrefix(m.log, expected)
                /\ tracking = m.pre \o [i \in 1..Len(names) |->
                                           [migration |-> names[i], batch |-> batch]]
                /\ Ended(p, "run", "Ok") => m.log = expected

\* The first position of entry e in a log, 0 when it is not there.
Pos(log, e) == IndexOf(log, e)

Deleted(log) == {log[i][2] : i \in {j \in 1..Len(log) : log[j][1] = "delete"}}

\* C19: when the UP (run) or DOWN (rollback) of a migration returns an
\* error, the invocation has returned the error with that section as the
\* last thing it did; the failing migration's row is not inserted (run) or
\* still there (rollback), and the rows inserted or deleted for the
\* migrations before it stay inserted or deleted.
C19_FailFast ==
    \A p \in Procs :
        mig[p].failed \in {"up", "down"} =>
            LET m == mig[p]
                n == m.log[Len(m.log)][2]
                names == Inserted(m.log)
                kept == SelectSeq(m.pre, LAMBDA r : r.migration \notin Deleted(m.log))
            IN  /\ m.pc = "done" /\ m.result = "Database"
                /\ m.log[Len(m.log)] = <<m.failed, n>>
                /\ m.failed = "up" =>
                       /\ n \notin RanMigrations(tracking)
                       /\ Len(tracking) = Len(m.pre) + Len(names)
                       /\ SubSeq(tracking, 1, Len(m.pre)) = m.pre
                       /\ \A i \in 1..Len(names) : tracking[Len(m.pre) + i].migration = names[i]
                       /\ Len(m.log) = 2 * Len(names) + 1
                /\ m.failed = "down" =>
                       /\ n \in RanMigrations(tracking)
                       /\ tracking = kept
                       /\ Len(m.log) = 2 * Cardinality(Deleted(m.log)) + 1

\* Witness of C19: the UP of the second migration of a run() failed after
\* the first one was applied and recorded.
C19_Witness ==
    /\ mig[1].failed = "up"
    /\ mig[1].log = << <<"up", Names[1]>>, <<"insert", Names[1]>>, <<"up", Names[2]>> >>
    /\ tracking = << [migration |-> Names[1], batch |-> 1] >>

\* The statements a rollback() sends for the names it takes, in order.
RECURSIVE RollbackLog(_)
RollbackLog(names) ==
    IF names = <<>> THEN <<>>
    ELSE << <<"down", Head(names)>>, <<"delete", Head(names)>> >> \o RollbackLog(Tail(names))

\* C20: a rollback() that finds rows of the highest batch whose files are
\* missing ends in an error only when a statement failed; when it returns
\* Ok it has sent the DOWN and deleted the row of exactly the migrations of
\* the batch whose file is present, and the rows of the missing ones remain.
C20_MissingFileSkipped ==
    \A p \in Procs :
        LET m == mig[p]
        IN  /\ (m.pc = "done" /\ m.kind = "rollback" /\ m.skipped > 0) =>
                   (m.result = "Ok" \/ m.failed # "none")
            /\ (Ended(p, "rollback", "Ok") /\ ~touched /\ m.pre # <<>>) =>
                   LET top == MaxBatch(m.pre)[1]
                       present == SelectSeq(Reverse(OfBatch(m.pre, top)), LAMBDA n : n \in files)
                   IN  /\ m.log = RollbackLog(present)
                       /\ m.skipped = Len(OfBatch(m.pre, top)) - Len(present)
                       /\ tracking = SelectSeq(m.pre, LAMBDA r :
                                         r.batch # top \/ r.migration \notin files)

\* Witness of C20: of a batch of two, the file of the first is gone; the
\* rollback returned Ok after the DOWN and the row removal of the second.
C20_Witness ==
    /\ Ended(1, "rollback", "Ok")
    /\ mig[1].skipped = 1
    /\ mig[1].pre = << [migration |-> Names[1], batch |-> 1], [migration |-> Names[2], batch |-> 1] >>
    /\ mig[1].log = << <<"down", Names[2]>>, <<"delete", Names[2]>> >>
    /\ tracking = << [migration |-> Names[1], batch |-> 1] >>

-----------------------------------------------------------------------------
(* where_exists among the predicates that queue binders                    *)

NextExists ==
    \/ DoWhere
    \/ DoOrWhere
    \/ DoWhereBetween
    \/ DoWhereExists

SpecExists == Init /\ [][NextExists]_vars

\* A step that appended an EXISTS predicate.
ExistsStep ==
    /\ ncalls' = ncalls + 1
    /\ Len(builder'.wheres) = Len(builder.wheres) + 1
    /\ Head(builder'.wheres[Len(builder'.wheres)]) = "EXISTS"

\* C21: where_exists(subquery) appends the predicate EXISTS ( <the text of
\* the subquery> ) and queues the subquery's binders, in their order, after
\* the binders already queued; in every chain of where, or_where,
\* where_between and where_exists the binders are the values of the
\* placeholders of the text, left to right.
C21_WhereExists ==
    /\ [][ExistsStep =>
             \E subquery \in SubQueries :
                 /\ builder'.wheres =
                        Append(builder.wheres, <<"EXISTS", "(">> \o ToSql(subquery) \o <<")">>)
                 /\ builder'.argument_appliers =
                        builder.argument_appliers \o subquery.argument_appliers]_vars
    /\ [](/\ PlaceholdersMatchBinders(builder)
          /\ CountPlaceholders(ToSql(builder)) = Len(Flatten(builder.marks)))

\* Witness of C21: where a, where_exists(sub with b, c, d), where e: the
\* binders are a, b, c, d, e.
C21_Witness ==
    /\ ncalls = 3
    /\ Len(builder.wheres) = 3
    /\ builder.wheres[1] = <<"id", "=", "?">>
    /\ Head(builder.wheres[2]) = "EXISTS"
    /\ builder.wheres[3] = <<"id", ">", "?">>
    /\ BuildArguments(builder) = <<2, 1, 2, 1, 2>>

\* The AND tokens of a text.
CountAnd(toks) == Len(SelectSeq(toks, LAMBDA t : t = "AND"))

\* or_where on b, as the claim describes it.
OrWhereSplices(b, col, op, val) ==
    LET after == OrWhere(b, col, op, val)
        n == Len(b.wheres)
    IN  IF b.wheres = <<>>
        THEN after = Where(b, col, op, val)
        ELSE /\ Len(after.wheres) = n
             /\ SubSeq(after.wheres, 1, n - 1) = SubSeq(b.wheres, 1, n - 1)
             /\ after.wheres[n] = b.wheres[n] \o <<"OR", col, op, "?">>
             /\ CountAnd(ToSql(after)) = CountAnd(ToSql(b))
             /\ after.argument_appliers = Append(b.argument_appliers, val)

\* C22: or_where(col, op, val) on a Builder with a predicate replaces the
\* last predicate P by `P OR col op ?`, adds no predicate and no AND, and
\* queues val as the last binder; on a Builder with no predicate it gives
\* what where(col, op, val) gives.  Stated of every Builder a chain reaches,
\* and of every step of a chain that left the number of predicates as it was.
C22_OrWhere ==
    /\ [](\A col \in Cols, op \in Ops, val \in Vals : OrWhereSplices(builder, col, op, val))
    /\ [][(ncalls' = ncalls + 1 /\ Len(builder'.wheres) = Len(builder.wheres)) =>
              \E col \in Cols, op \in Ops, val \in Vals :
                  /\ builder.wheres # <<>>
                  /\ builder'.wheres = [builder.wheres EXCEPT ![Len(builder.wheres)] =
                                            @ \o <<"OR", col, op, "?">>]
                  /\ builder'.argument_appliers = Append(builder.argument_appliers, val)]_vars

\* Witness of C22: where(id = 1).where_between(id, 2, 1).or_where(id > 2):
\* two predicates, the last one with the OR spliced in, the value last.
C22_Witness ==
    /\ ncalls = 3
    /\ builder.wheres = << <<"id", "=", "?">>,
                           <<"id", "BETWEEN", "?", "AND", "?", "OR", "id", ">", "?">> >>
    /\ BuildArguments(builder) = <<1, 2, 1, 2>>

-----------------------------------------------------------------------------
(* The order of the clauses of to_sql()                                    *)

\* select, the joins, predicates, orderings, limit and offset, in any order.
NextClauses ==
    \/ DoSelect
    \/ DoJoin
    \/ DoLeftJoin
    \/ DoWhere
    \/ DoWhereEq
    \/ DoWhereNull
    \/ DoOrderBy
    \/ DoLatest
    \/ DoOldest
    \/ DoLimit
    \/ DoOffset

SpecClauses == Init /\ [][NextClauses]_vars

\* The words that open the clauses after the projection, in the order of
\* the claim.
ClauseWords == <<"FROM", "WHERE", "ORDER", "LIMIT", "OFFSET">>

\* The text between the k-th clause word and the next clause word present,
\* empty when the k-th word is absent.
Segment(toks, k) ==
    LET p == IndexOf(toks, ClauseWords[k])
        later == {IndexOf(toks, ClauseWords[j]) : j \in (k + 1)..Len(ClauseWords)} \ {0}
        e == IF later = {} THEN Len(toks) + 1
             ELSE CHOOSE x \in later : \A y \in later : x <= y
    IN  IF p = 0 THEN <<>> ELSE SubSeq(toks, p + 1, e - 1)

\* b.joins, b.wheres or b.order after a call: as before, or one entry longer.
KeepsCallOrder(before, after) ==
    /\ Len(after) \in {Len(before), Len(before) + 1}
    /\ SubSeq(after, 1, Len(before)) = before

\* C23: whatever the order of the calls, the text of to_sql() is SELECT, the
\* projection (* by default), FROM, the table, the joins, then WHERE and the
\* predicates joined by AND, then ORDER BY and the orderings joined by
\* commas, then LIMIT n, then OFFSET n, each clause present only when it was
\* asked for; and each call leaves the joins, predicates and orderings made
\* before it in place, ahead of its own.
C23_ClauseOrder ==
    /\ [](LET toks == ToSql(builder)
              at == [k \in 1..Len(ClauseWords) |-> IndexOf(toks, ClauseWords[k])]
          IN  /\ Head(toks) = "SELECT"
              /\ at[1] > 0
              /\ SubSeq(toks, 2, at[1] - 1) = JoinWith(builder.select, <<",">>)
              /\ ncalls = 0 => SubSeq(toks, 2, at[1] - 1) = <<"*">>
              /\ \A j, k \in 1..Len(ClauseWords) : (j < k /\ at[j] > 0 /\ at[k] > 0) => at[j] < at[k]
              /\ Segment(toks, 1) = <<builder.table>> \o Flatten(builder.joins)
              /\ at[2] > 0 <=> builder.wheres # <<>>
              /\ Segment(toks, 2) = JoinWith(builder.wheres, <<"AND">>)
              /\ at[3] > 0 <=> builder.order # <<>>
              /\ builder.order # <<>> =>
                     Segment(toks, 3) = <<"BY">> \o JoinWith(builder.order, <<",">>)
              /\ at[4] > 0 <=> builder.limit # None
              /\ builder.limit # None => Segment(toks, 4) = <<NumStr(builder.limit[1])>>
              /\ at[5] > 0 <=> builder.offset # None
              /\ builder.offset # None => Segment(toks, 5) = <<NumStr(builder.offset[1])>>)
    /\ [][/\ KeepsCallOrder(builder.joins, builder'.joins)
          /\ KeepsCallOrder(builder.wheres, builder'.wheres)
          /\ KeepsCallOrder(builder.order, builder'.order)]_vars

\* Witness of C23: where_eq(id, 2), where_eq(id, 1) and a join have been
\* called; the join stands before the two predicates, which are in call
\* order like their binders.
C23_Witness ==
    /\ ncalls = 3
    /\ ToSql(builder) = <<"SELECT", "*", "FROM", "users",
                          "INNER", "JOIN", "posts", "ON", "users.id", "=", "posts.user_id",
                          "WHERE", "id", "=", "?", "AND", "id", "=", "?">>
    /\ BuildArguments(builder) = <<2, 1>>

-----------------------------------------------------------------------------
(* limit, offset and first                                                 *)

NextLimit ==
    \/ OrbitQuery
    \/ DoWhere
    \/ DoLimit
    \/ DoOffset
    \/ DoFirst

SpecLimit == InitQuery /\ [][NextLimit]_vars

\* The tokens of toks that are tok.
CountWord(toks, tok) == Len(SelectSeq(toks, LAMBDA t : t = tok))

\* C24: limit(n) and offset(n) on any Builder a chain reaches (with limits
\* and offsets set before or not) give a text with one LIMIT and one OFFSET
\* at most, LIMIT being n after limit(n) and OFFSET being n after offset(n),
\* the other of the two as it was; and the statement first() sends has
\* LIMIT 1, whatever limit was set, and returns one row at most.
C24_LastLimitWins ==
    /\ \A n \in Limits :
           LET before == ToSql(builder)
               limited == ToSql(Limit(builder, n))
               moved == ToSql(Offset(builder, n))
           IN  /\ Segment(limited, 4) = <<NumStr(n)>>
               /\ Segment(limited, 5) = Segment(before, 5)
               /\ Segment(moved, 5) = <<NumStr(n)>>
               /\ Segment(moved, 4) = Segment(before, 4)
               /\ CountWord(limited, "LIMIT") = 1 /\ CountWord(limited, "OFFSET") <= 1
               /\ CountWord(moved, "OFFSET") = 1 /\ CountWord(moved, "LIMIT") <= 1
    /\ builder.limit # None => Segment(ToSql(builder), 4) = <<NumStr(builder.limit[1])>>
    /\ builder.offset # None => Segment(ToSql(builder), 5) = <<NumStr(builder.offset[1])>>
    /\ (result.op = "first" /\ result.stmts = 1) =>
           /\ Segment(result.sql, 4) = <<"1">>
           /\ CountWord(result.sql, "LIMIT") = 1
           /\ Len(result.rows) <= 1

\* Witness of C24: three calls of limit and offset, so that one of the two
\* was called again: the text has one LIMIT and one OFFSET.
C24_Witness ==
    /\ ncalls = 3
    /\ ToSql(builder) = <<"SELECT", "*", "FROM", "users", "LIMIT", "5", "OFFSET", "1">>
    /\ ~SOFT_DELETES

\* Witness of C24, first(): a Builder with limit(5) was executed by first()
\* on a table of two rows and gave one row, under LIMIT 1.
C24_WitnessFirst ==
    /\ result.op = "first" /\ result.status = "Ok" /\ result.chained = 1
    /\ result.sql = <<"SELECT", "*", "FROM", "users", "LIMIT", "1">>
    /\ Len(result.rows) = 1

-----------------------------------------------------------------------------
(* group_by and having                                                     *)

\* C25: after group_by and having, at any place of a chain, GROUP BY and
\* HAVING are clauses of their own in the text of to_sql(): neither stands
\* right after WHERE or after an AND that joins the predicates, and a
\* Builder none of whose predicates was given by a where call has no WHERE;
\* the value of having is queued with the values of the where calls, in
\* the order of the placeholders.
C25_GroupByOwnClause ==
    LET toks == ToSql(builder)
        grouping == {i \in 1..Len(builder.wheres) :
                         Head(builder.wheres[i]) \in {"GROUP", "HAVING"}}
    IN  /\ \A i \in 2..Len(toks) :
               toks[i] \in {"GROUP", "HAVING"} => toks[i - 1] \notin {"WHERE", "AND"}
        /\ (grouping = 1..Len(builder.wheres)) => IndexOf(toks, "WHERE") = 0
        /\ (\A i \in 1..Len(builder.wheres) : CountPlaceholders(builder.wheres[i]) = Len(builder.marks[i]))
               => PlaceholderValues(builder) = BuildArguments(builder)

-----------------------------------------------------------------------------
(* Two run() invocations at once                                           *)

\* run() is started in either slot whatever the other slot is doing: the
\* code takes no lock.
ConcurrentRun == \E p \in Procs : Start(p, "run")

NextConcurrent ==
    \/ ConcurrentRun
    \/ \E p \in Procs : ShowTables(p)
    \/ \E p \in Procs : CreateTable(p)
    \/ \E p \in Procs : SelectRan(p)
    \/ \E p \in Procs : RunSelectMax(p)
    \/ \E p \in Procs : Up(p)
    \/ \E p \in Procs : Insert(p)

SpecConcurrent == InitMigrator /\ [][NextConcurrent]_vars

\* The invocation in slot p has sent the UP of n and inserted its row.
Applied(p, n) ==
    /\ Pos(mig[p].log, <<"up", n>>) > 0
    /\ Pos(mig[p].log, <<"up", n>>) < Pos(mig[p].log, <<"insert", n>>)

RowsOf(n) == SelectSeq(tracking, LAMBDA r : r.migration = n)

\* C26: nothing keeps two run() invocations apart.  When the two
\* invocations under way have both sent the UP of a migration and inserted
\* its row, both had read the tracking table without that migration, and
\* the table holds a row from each of them for it.
C26_NoMigrationLock ==
    \A n \in Range(Names) :
        (Applied(1, n) /\ Applied(2, n)) =>
            /\ n \notin mig[1].ran_migrations /\ n \notin mig[2].ran_migrations
            /\ Len(RowsOf(n)) >= 2

\* Witness of C26: both invocations read an empty tracking table, both sent
\* the UP of the first migration and both inserted a row for it.
C26_Witness ==
    /\ mig[1].kind = "run" /\ mig[2].kind = "run"
    /\ mig[1].pre = <<>> /\ mig[2].pre = <<>>
    /\ Applied(1, Names[1]) /\ Applied(2, Names[1])
    /\ Len(RowsOf(Names[1])) = 2

-----------------------------------------------------------------------------
(* Progress of rollback, batches, rows against sections                    *)

\* C27: a rollback() that returns Ok on a tracking table with rows leaves
\* fewer rows than it found, so that rollback() after rollback() empties
\* the table.
C27_RollbackRemovesARow ==
    \A p \in Procs :
        (Ended(p, "rollback", "Ok") /\ mig[p].pre # <<>>) => Len(tracking) < Len(mig[p].pre)

\* C28: the batch under which a run() records its migrations is greater
\* than every batch of the tracking table it found, whether or not the
\* query for the highest batch succeeded.
C28_BatchAboveRecorded ==
    \A p \in Procs :
        mig[p].kind = "run" =>
            /\ mig[p].pc \in {"up", "insert"} =>
                   \A j \in 1..Len(mig[p].pre) : mig[p].batch > mig[p].pre[j].batch
            /\ \A i \in (Len(mig[p].pre) + 1)..Len(tracking) :
                   \A j \in 1..Len(mig[p].pre) : tracking[i].batch > mig[p].pre[j].batch

\* C29: when no invocation is under way, a migration has a tracking row if
\* and only if what its UP made is there, that is, its UP was executed and
\* its DOWN has not been executed since.
C29_RowsMatchSections ==
    Sequential =>
        \A n \in Range(Names) : n \in RanMigrations(tracking) <=> n \in schema

-----------------------------------------------------------------------------
(* distinct against select                                                 *)

\* C30: on every Builder, distinct() then select(cols) renders the text
\* that select(cols) then distinct() renders.
C30_DistinctSelectCommute ==
    \A cols \in SelectLists :
        ToSql(Select(Distinct(builder), cols)) = ToSql(Distinct(Select(builder, cols)))

====
